---------------------------- MODULE Spec2Model ----------------------------
(***************************************************************************)
(* The reminder subsystem of PeterBot (src/bot.py): the ReminderManager    *)
(* store, its two files, and the handlers that drive it (on_ready with the *)
(* missed-reminder recovery, the 30 s reminder_checker, /remindme,         *)
(* on_disconnect, the signal handler and run_bot's finally block).         *)
(*                                                                         *)
(* Time is the wall clock counted in ticks of 2.5 minutes, so that the     *)
(* retry delay of 5 minutes is 2 ticks and an instant lies strictly        *)
(* between a requeue and its new due time.  A handler runs atomically from *)
(* one await to the next (asyncio is cooperative), so every action below   *)
(* is one such synchronous segment.                                        *)
(*                                                                         *)
(* A reminder is the dict of add_reminder, plus a field rid that no        *)
(* operator of the program reads: it names the reminder so that properties *)
(* can follow it through copies, the file and reloads.                     *)
(***************************************************************************)
EXTENDS Integers, Sequences, FiniteSets, TLC

\* ------------------------------------------------------------------ bounds
MaxTime == 3          \* the clock runs 0..MaxTime
MaxAdds == 2          \* reminders created over a behaviour
MaxReady == 2         \* on_ready handlers alive at once
MaxStarts == 2        \* times the program is started
MaxEntries == 3       \* entries of a reminders file that was not written here

\* -------------------------------------------------------- program constants
REMINDER_RETRY_DELAY == 2          \* timedelta(minutes=5), in ticks

Users == {1}
Messages == {"m"}
None == <<>>                       \* Python's None; a file that does not exist
Some(x) == <<x>>                   \* a value that is there; a file and its content
Statuses == {"sent", "drop", "retry"}

VARIABLES
    now,                  \* datetime.now()
    proc,                 \* "up" | "down"
    reminders,            \* reminder_manager.reminders
    reminders_file,       \* reminders.json: None or the list of JSON entries
    shutdown_file,        \* bot_shutdown.json: None or the ISO shutdown_time
    has_initialized,      \* global has_initialized
    checker_running,      \* reminder_checker.is_running()
    ready,                \* on_ready handlers suspended at an await
    poll,                 \* the reminder_checker iteration suspended at an await
    nextId,               \* next rid
    starts,               \* times the program has been started
    popped,               \* rids a pop returned and no requeue has put back since
    dt_returned,          \* durations get_downtime returned since the last marker save
    last,                 \* what the last step did
    parse_call,           \* the arguments of a parse_reminder_time call
    parse_result          \* what the call returned or raised

vars == <<now, proc, reminders, reminders_file, shutdown_file, has_initialized,
          checker_running, ready, poll, nextId, starts, popped, dt_returned, last,
          parse_call, parse_result>>

\* The two variables of the parser; the handlers of the store leave them alone
\* (remindme's call of the parser is its input parsed).
parser_vars == <<parse_call, parse_result>>

\* ------------------------------------------------------------- conversions
\* An isoformat that writes the date and drops the time of day.
isoformat_date_only(t) == <<t \div 576, 0>>

\* A datetime is the number of its instant.  A datetime with a tzinfo, which
\* this program never makes but fromisoformat does, is the number -1 - instant
\* (its tzinfo is UTC), so that a value of either kind is a number.
IsAware(dt) == dt < 0

\* datetime.isoformat(): the date part and the time-of-day part of an instant
\* (a day has 576 ticks), and "+00:00" after them for a datetime with a tzinfo.
isoformat(t) ==
    IF IsAware(t)
    THEN <<(-1 - t) \div 576, (-1 - t) % 576, 0>>
    ELSE <<t \div 576, t % 576>>

\* A timestamp string is <<date, time of day>> as isoformat writes it for the
\* datetimes of this program, <<date, time of day, UTC offset>>, which
\* fromisoformat reads as well (into a datetime with a tzinfo), or anything
\* else, for which fromisoformat raises ValueError (TypeError if not a string).
Parses(s) == Len(s) \in {2, 3}

HasOffset(s) == Len(s) = 3

\* datetime.fromisoformat()
fromisoformat(s) ==
    IF HasOffset(s)
    THEN -1 - (s[1] * 576 + s[2])
    ELSE s[1] * 576 + s[2]

\* The JSON entry save_reminders writes for one reminder.
ToEntry(r) ==
    [user_id |-> r.user_id, message |-> r.message,
     remind_time |-> isoformat(r.remind_time),
     created_at |-> isoformat(r.created_at), rid |-> r.rid]

\* The dict load_reminders builds from one JSON entry.
FromEntry(e) ==
    [user_id |-> e.user_id, message |-> e.message,
     remind_time |-> fromisoformat(e.remind_time),
     created_at |-> fromisoformat(e.created_at), rid |-> e.rid]

\* The list json.dump writes for a list of reminders.
ToEntries(rs) == [i \in 1..Len(rs) |-> ToEntry(rs[i])]

\* The list load_reminders builds from the entries of the file, in file order.
FromEntries(es) == [i \in 1..Len(es) |-> FromEntry(es[i])]

\* ------------------------------------------------------- ReminderManager
\* The store an operation works on: the list and the two files.
Store == [reminders |-> reminders, file |-> reminders_file, marker |-> shutdown_file]

SetStore(st) ==
    /\ reminders' = st.reminders
    /\ reminders_file' = st.file
    /\ shutdown_file' = st.marker

\* list.sort(key=remind_time) is stable: each element goes after the last one
\* whose key is <= its own.
InsertSorted(acc, r) ==
    LET k == Cardinality({i \in 1..Len(acc) : acc[i].remind_time <= r.remind_time})
    IN  SubSeq(acc, 1, k) \o <<r>> \o SubSeq(acc, k + 1, Len(acc))

RECURSIVE SortFrom(_, _)
SortFrom(acc, rs) ==
    IF rs = <<>> THEN acc ELSE SortFrom(InsertSorted(acc, Head(rs)), Tail(rs))

sort_reminders(rs) == SortFrom(<<>>, rs)

save_reminders(st) == [st EXCEPT !.file = Some(ToEntries(st.reminders))]

\* What the reminders file is when it is there and is not a JSON list: it can
\* not be read or decoded ("unreadable"), or it decodes to an object or to a
\* scalar.  A file that is a list is Some(list).
NotAList(kind) == <<kind, "not a list">>

\* A save_reminders that fails: the except branch logs and returns.  open()
\* raised and the file is as it was, or json.dump raised after open() had
\* truncated the file and what is there can not be decoded.
save_reminders_failed(st, opened) ==
    IF opened THEN [st EXCEPT !.file = NotAList("unreadable")] ELSE st

\* The inner try of load_reminders succeeds on entry e: the four keys are there
\* and both timestamps parse.  (An entry that is not an object has no keys.)
EntryLoads(e) ==
    /\ {"user_id", "message", "remind_time", "created_at"} \subseteq DOMAIN e
    /\ Parses(e.remind_time)
    /\ Parses(e.created_at)

\* _sort_reminders raises TypeError: a list that holds a remind_time with a UTC
\* offset and one without can not be ordered ("can't compare offset-naive and
\* offset-aware datetimes").
SortRaises(rs) ==
    \E i, j \in 1..Len(rs) : IsAware(rs[i].remind_time) /\ ~IsAware(rs[j].remind_time)

\* load_reminders that keeps the list in memory when the file is no list.
load_reminders_keeps_on_error(st) ==
    IF st.file = None \/ Len(st.file) # 1 THEN st
    ELSE LET loaded == FromEntries(SelectSeq(st.file[1], EntryLoads)) IN
         IF SortRaises(loaded) THEN [st EXCEPT !.reminders = <<>>]
         ELSE [st EXCEPT !.reminders = sort_reminders(loaded)]

\* No file: return.  Not a list: open, json.load or the for statement raises
\* and the outer except empties the list (an object is iterated over its keys,
\* every one is skipped, and the list is empty as well).  A list: the entries
\* that load, sorted; an exception of the sort is caught by the outer except.
load_reminders(st) ==
    IF st.file = None THEN st
    ELSE IF Len(st.file) # 1 THEN [st EXCEPT !.reminders = <<>>]
    ELSE LET loaded == FromEntries(SelectSeq(st.file[1], EntryLoads)) IN
         IF SortRaises(loaded) THEN [st EXCEPT !.reminders = <<>>]
         ELSE [st EXCEPT !.reminders = sort_reminders(loaded)]

save_shutdown_time(st, t) == [st EXCEPT !.marker = Some(isoformat(t))]

\* get_downtime without os.remove.
get_downtime_keeps_marker(st, t) ==
    IF st.marker # None
    THEN [st |-> st, ret |-> Some(t - fromisoformat(st.marker[1]))]
    ELSE [st |-> st, ret |-> None]

\* Returns the store and the downtime (None when there is no marker).
get_downtime(st, t) ==
    IF st.marker # None
    THEN [st  |-> [st EXCEPT !.marker = None],
          ret |-> Some(t - fromisoformat(st.marker[1]))]
    ELSE [st |-> st, ret |-> None]

\* add_reminder without _sort_reminders.
add_reminder_unsorted(st, user_id, message, remind_time, t, id) ==
    save_reminders(
        [st EXCEPT !.reminders = Append(@,
            [user_id |-> user_id, message |-> message,
             remind_time |-> remind_time, created_at |-> t, rid |-> id])])

\* add_reminder without save_reminders.
add_reminder_unsaved(st, user_id, message, remind_time, t, id) ==
    [st EXCEPT !.reminders = sort_reminders(Append(@,
        [user_id |-> user_id, message |-> message,
         remind_time |-> remind_time, created_at |-> t, rid |-> id]))]

add_reminder(st, user_id, message, remind_time, t, id) ==
    save_reminders(
        [st EXCEPT !.reminders = sort_reminders(Append(@,
            [user_id |-> user_id, message |-> message,
             remind_time |-> remind_time, created_at |-> t, rid |-> id]))])

\* pop_due_reminders with "<" for "<=" in the due list.
pop_due_reminders_strict(st, t) ==
    [st  |-> [st EXCEPT !.reminders = SelectSeq(@, LAMBDA r : r.remind_time > t)],
     due |-> SelectSeq(st.reminders, LAMBDA r : r.remind_time < t)]

\* pop_due_reminders that leaves self.reminders as it was.
pop_due_reminders_keeps(st, t) ==
    [st  |-> st,
     due |-> SelectSeq(st.reminders, LAMBDA r : r.remind_time <= t)]

\* Returns the store and the due list.
pop_due_reminders(st, t) ==
    [st  |-> [st EXCEPT !.reminders = SelectSeq(@, LAMBDA r : r.remind_time > t)],
     due |-> SelectSeq(st.reminders, LAMBDA r : r.remind_time <= t)]

\* requeue_reminder that delays from the old remind_time, not from now.
requeue_reminder_from_due(st, reminder, delay, t) ==
    [st EXCEPT !.reminders =
        sort_reminders(Append(@, [reminder EXCEPT !.remind_time = @ + delay]))]

\* requeue_reminder making the requeued reminder the whole pending list.
requeue_reminder_replaces(st, reminder, delay, t) ==
    [st EXCEPT !.reminders = <<[reminder EXCEPT !.remind_time = t + delay]>>]

\* requeue_reminder that also calls save_reminders.
requeue_reminder_saves(st, reminder, delay, t) ==
    save_reminders([st EXCEPT !.reminders =
        sort_reminders(Append(@, [reminder EXCEPT !.remind_time = t + delay]))])

requeue_reminder(st, reminder, delay, t) ==
    [st EXCEPT !.reminders =
        sort_reminders(Append(@, [reminder EXCEPT !.remind_time = t + delay]))]

\* ---------------------------------------------------------------- initial
NoReminder == [user_id |-> 0, message |-> "", remind_time |-> 0, created_at |-> 0, rid |-> 0]

\* The record of a step: the handler segment that ran (op), what it found
\* (t, pending, file, marker, popped: the clock and the store as they were
\* when the step began) and, where they apply, the reminder whose delivery
\* returned, the status, the arguments deliver_reminder was called with,
\* whether the cycle ended (final), and what the step's first call returned
\* (ret: the list of pop_due_reminders; parsed: the result of
\* parse_reminder_time).
Did(op) ==
    [op |-> op, reminder |-> NoReminder, status |-> "-", missed |-> FALSE,
     downtime |-> None, final |-> FALSE, ret |-> <<>>, parsed |-> None, t |-> now,
     pending |-> reminders, file |-> reminders_file, marker |-> shutdown_file,
     popped |-> popped]

Init ==
    /\ now = 0
    /\ proc = "up"
    /\ reminders = <<>>
    /\ reminders_file = None
    /\ shutdown_file = None
    /\ has_initialized = FALSE
    /\ checker_running = FALSE
    /\ ready = <<>>
    /\ poll = <<>>
    /\ nextId = 1
    /\ starts = 1
    /\ popped = {}
    /\ dt_returned = 0
    /\ last = Did("init")
    /\ parse_call = <<>>
    /\ parse_result = <<>>

\* The clock advances.
Tick ==
    /\ UNCHANGED parser_vars
    /\ now < MaxTime
    /\ now' = now + 1
    /\ last' = Did("tick")
    /\ UNCHANGED <<proc, reminders, reminders_file, shutdown_file, has_initialized,
                   checker_running, ready, poll, nextId, starts,
                   popped, dt_returned>>

Rids(rs) == {rs[i].rid : i \in 1..Len(rs)}

RemoveAt(s, i) == SubSeq(s, 1, i - 1) \o SubSeq(s, i + 1, Len(s))

\* ------------------------------------------------------------ on_ready
\* check_missed_reminders up to its first await: get_downtime, then
\* pop_due_reminders.
check_missed_start(st, t) ==
    LET g == get_downtime(st, t)
        p == pop_due_reminders(g.st, t)
    IN  [st |-> p.st, due |-> p.due, downtime |-> g.ret]

\* The loop body of check_missed_reminders after deliver_reminder returned.
missed_handle_status(st, reminder, status, t) ==
    IF status = "retry"
    THEN requeue_reminder(st, reminder, REMINDER_RETRY_DELAY, t)
    ELSE st

\* check_missed_reminders calling deliver_reminder as reminder_checker does.
missed_deliver_args_plain(task) == [missed |-> FALSE, downtime |-> None]

\* The arguments check_missed_reminders gives deliver_reminder.
missed_deliver_args(task) == [missed |-> TRUE, downtime |-> task.downtime]

\* A ready event: on_ready up to its first await on a delivery, or to its end.
\* bot.tree.sync() touches nothing of the reminder subsystem and its await only
\* delays reminder_checker.start(); an iteration of the checker may begin
\* arbitrarily late anyway, so on_ready's tail is taken in the same step.
OnReady ==
    /\ UNCHANGED parser_vars
    /\ proc = "up"
    /\ Len(ready) < MaxReady
    /\ IF ~has_initialized
       THEN LET c == check_missed_start(load_reminders(Store), now) IN
            /\ SetStore(c.st)
            /\ popped' = popped \cup Rids(c.due)
            /\ dt_returned' = IF c.downtime # None THEN dt_returned + 1 ELSE dt_returned
            /\ last' = [Did("on_ready_init") EXCEPT !.downtime = c.downtime, !.ret = c.due]
            /\ IF c.due = <<>>
               THEN /\ has_initialized' = TRUE
                    /\ checker_running' = TRUE
                    /\ UNCHANGED ready
               ELSE /\ ready' = Append(ready, [due |-> c.due, downtime |-> c.downtime])
                    /\ UNCHANGED <<has_initialized, checker_running>>
       ELSE /\ checker_running' = TRUE
            /\ last' = Did("on_ready")
            /\ UNCHANGED <<reminders, reminders_file, shutdown_file, has_initialized,
                           ready, popped, dt_returned>>
    /\ UNCHANGED <<now, proc, poll, nextId, starts>>

\* deliver_reminder returns to the recovery of on_ready handler i; after the
\* last one check_missed_reminders saves and on_ready runs to its end.
RecoveryDeliver(i, status) ==
    /\ UNCHANGED parser_vars
    /\ proc = "up"
    /\ i \in 1..Len(ready)
    /\ LET task == ready[i]
           r    == Head(task.due)
           rest == Tail(task.due)
           st   == missed_handle_status(Store, r, status, now)
           args == missed_deliver_args(task)
       IN  /\ last' = [Did("deliver_missed") EXCEPT
                         !.reminder = r, !.status = status, !.missed = args.missed,
                         !.downtime = args.downtime, !.final = (rest = <<>>)]
           /\ IF rest # <<>>
              THEN /\ SetStore(st)
                   /\ ready' = [ready EXCEPT ![i].due = rest]
                   /\ UNCHANGED <<has_initialized, checker_running>>
              ELSE /\ SetStore(save_reminders(st))
                   /\ has_initialized' = TRUE
                   /\ checker_running' = TRUE
                   /\ ready' = RemoveAt(ready, i)
           /\ popped' = IF status = "retry" THEN popped \ {r.rid} ELSE popped
    /\ UNCHANGED <<now, proc, poll, nextId, starts, dt_returned>>

\* ----------------------------------------------------- reminder_checker
\* reminder_checker requeueing whatever was not sent.
checker_handle_status_collapsed(st, reminder, status, t) ==
    IF status # "sent"
    THEN requeue_reminder(st, reminder, REMINDER_RETRY_DELAY, t)
    ELSE st

\* reminder_checker saving after every outcome, not once at the end.
checker_handle_status_saves(st, reminder, status, t) ==
    save_reminders(IF status = "retry"
                   THEN requeue_reminder(st, reminder, REMINDER_RETRY_DELAY, t)
                   ELSE st)

\* The loop body of reminder_checker after deliver_reminder returned.
checker_handle_status(st, reminder, status, t) ==
    IF status = "retry"
    THEN requeue_reminder(st, reminder, REMINDER_RETRY_DELAY, t)
    ELSE st

\* The arguments reminder_checker gives deliver_reminder (downtime defaults
\* to None).
checker_deliver_args == [missed |-> FALSE, downtime |-> None]

\* One iteration of the tasks.loop begins: pop_due_reminders, and return when
\* nothing is due.  The loop runs one iteration at a time; the model lets an
\* iteration begin at any instant, which covers every 30 s schedule.
PollStart ==
    /\ UNCHANGED parser_vars
    /\ proc = "up"
    /\ checker_running
    /\ poll = <<>>
    /\ LET p == pop_due_reminders(Store, now) IN
        /\ SetStore(p.st)
        /\ popped' = popped \cup Rids(p.due)
        /\ poll' = IF p.due = <<>> THEN <<>> ELSE <<[due |-> p.due]>>
        /\ last' = [Did("poll") EXCEPT !.ret = p.due]
    /\ UNCHANGED <<now, proc, has_initialized, checker_running,
                   ready, nextId, starts, dt_returned>>

\* deliver_reminder returns to the iteration.
PollDeliver(status) ==
    /\ UNCHANGED parser_vars
    /\ proc = "up"
    /\ poll # <<>>
    /\ LET r    == Head(poll[1].due)
           rest == Tail(poll[1].due)
           st   == checker_handle_status(Store, r, status, now)
           args == checker_deliver_args
       IN  /\ last' = [Did("deliver") EXCEPT
                         !.reminder = r, !.status = status, !.missed = args.missed,
                         !.downtime = args.downtime, !.final = (rest = <<>>)]
           /\ IF rest # <<>>
              THEN SetStore(st) /\ poll' = <<[due |-> rest]>>
              ELSE SetStore(save_reminders(st)) /\ poll' = <<>>
           /\ popped' = IF status = "retry" THEN popped \ {r.rid} ELSE popped
    /\ UNCHANGED <<now, proc, has_initialized, checker_running,
                   ready, nextId, starts, dt_returned>>

\* ------------------------------------------------------------ /remindme
\* remindme comparing with "<" where the code has "<=".
remindme_accepts_now(st, user_id, message, remind_time, t, t_add, id) ==
    IF remind_time = None THEN st
    ELSE IF remind_time[1] < t THEN st
    ELSE add_reminder(st, user_id, message, remind_time[1], t_add, id)

\* What remindme does with the parser's result (None or an instant): the new
\* store, or the store as it was when the command is refused.  The handler
\* reads the clock for the comparison (t); add_reminder reads it again for
\* created_at (t_add).
remindme(st, user_id, message, remind_time, t, t_add, id) ==
    IF remind_time = None THEN st
    ELSE IF remind_time[1] <= t THEN st
    ELSE add_reminder(st, user_id, message, remind_time[1], t_add, id)

\* A /remindme interaction.  Interactions reach the bot only on a session that
\* became ready, so some on_ready has begun.  parsed is parse_reminder_time's
\* result; d is the time that passes between the handler's datetime.now() and
\* the one in add_reminder.
Remindme(user_id, message, parsed, d) ==
    /\ UNCHANGED parser_vars
    /\ proc = "up"
    /\ has_initialized \/ ready # <<>>
    /\ nextId <= MaxAdds
    /\ now + d <= MaxTime
    /\ LET st == remindme(Store, user_id, message, parsed, now, now + d, nextId)
           added == Len(st.reminders) > Len(reminders)
       IN  /\ SetStore(st)
           /\ nextId' = IF added THEN nextId + 1 ELSE nextId
           /\ IF added THEN now' = now + d ELSE d = 0 /\ now' = now
           /\ last' = IF added
                      THEN [Did("add") EXCEPT !.reminder.rid = nextId, !.parsed = parsed]
                      ELSE [Did("remindme_refused") EXCEPT !.parsed = parsed]
    /\ UNCHANGED <<proc, has_initialized, checker_running,
                   ready, poll, starts, popped, dt_returned>>

\* --------------------------------------------------------- on_disconnect
OnDisconnect ==
    /\ UNCHANGED parser_vars
    /\ proc = "up"
    /\ SetStore(save_reminders(Store))
    /\ last' = Did("disconnect")
    /\ UNCHANGED <<now, proc, has_initialized, checker_running,
                   ready, poll, nextId, starts, popped, dt_returned>>

\* ------------------------------------------------------------ shutdown
\* signal_handler up to sys.exit(0).
signal_handler(st, t) == save_reminders(save_shutdown_time(st, t))

\* The finally block of run_bot without save_shutdown_time.
run_bot_finally_no_marker(st, t) == save_reminders(st)

\* The finally block of run_bot.
run_bot_finally(st, t) == save_reminders(save_shutdown_time(st, t))

\* The process is gone, and its memory with it.
Ends ==
    /\ UNCHANGED parser_vars
    /\ proc' = "down"
    /\ reminders' = <<>>
    /\ has_initialized' = FALSE
    /\ checker_running' = FALSE
    /\ ready' = <<>>
    /\ poll' = <<>>
    /\ UNCHANGED <<now, nextId, starts, popped>>

\* SIGINT or SIGTERM: the handler runs, sys.exit(0) raises SystemExit through
\* bot.run, and the finally block of run_bot runs.
Signal ==
    /\ proc = "up"
    /\ LET st == run_bot_finally(signal_handler(Store, now), now) IN
        /\ reminders_file' = st.file
        /\ shutdown_file' = st.marker
    /\ dt_returned' = 0
    /\ last' = Did("signal")
    /\ Ends

\* bot.run returns or raises: the finally block of run_bot runs.
RunLoopExit ==
    /\ proc = "up"
    /\ LET st == run_bot_finally(Store, now) IN
        /\ reminders_file' = st.file
        /\ shutdown_file' = st.marker
    /\ dt_returned' = 0
    /\ last' = Did("run_exit")
    /\ Ends

\* The process is killed (SIGKILL, power loss): nothing runs.
Crash ==
    /\ proc = "up"
    /\ last' = Did("crash")
    /\ Ends
    /\ UNCHANGED <<reminders_file, shutdown_file, dt_returned>>

\* The program is started again: module-level state is as constructed
\* (ReminderManager.__init__, the globals), the files are as they were left.
Start ==
    /\ UNCHANGED parser_vars
    /\ proc = "down"
    /\ starts < MaxStarts
    /\ starts' = starts + 1
    /\ proc' = "up"
    /\ last' = Did("start")
    /\ UNCHANGED <<now, reminders, reminders_file, shutdown_file, has_initialized,
                   checker_running, ready, poll, nextId, popped, dt_returned>>

\* parse_reminder_time's results: a failure, or an instant (past, present or
\* future).
Parsed == {None} \cup {Some(t) : t \in 0..MaxTime + 1}

Next ==
    \/ Tick
    \/ OnReady
    \/ \E i \in 1..MaxReady, status \in Statuses : RecoveryDeliver(i, status)
    \/ PollStart
    \/ \E status \in Statuses : PollDeliver(status)
    \/ \E u \in Users, m \in Messages, parsed \in Parsed, d \in 0..1 :
          Remindme(u, m, parsed, d)
    \/ OnDisconnect
    \/ Signal
    \/ RunLoopExit
    \/ Crash
    \/ Start

Spec == Init /\ [][Next]_vars

\* ------------------------------------------------- the files, from outside
\* The second specification: load_reminders and save_reminders on a reminders
\* file that the program did not write itself (edited, damaged, from another
\* version) and on storage that fails.

\* What an entry of such a file can look like.
EntryShapes == {"early", "late", "offset", "no_created_at", "bad_time", "not_object"}

Entry(shape, id) ==
    CASE shape = "early" ->
           [user_id |-> 1, message |-> "m", remind_time |-> <<0, 1>>,
            created_at |-> <<0, 0>>, rid |-> id]
      [] shape = "late" ->
           [user_id |-> 1, message |-> "m", remind_time |-> <<0, 2>>,
            created_at |-> <<0, 1>>, rid |-> id]
      [] shape = "offset" ->
           [user_id |-> 1, message |-> "m", remind_time |-> <<0, 1, 0>>,
            created_at |-> <<0, 0>>, rid |-> id]
      [] shape = "no_created_at" ->
           [user_id |-> 1, message |-> "m", remind_time |-> <<0, 1>>, rid |-> id]
      [] shape = "bad_time" ->
           [user_id |-> 1, message |-> "m", remind_time |-> <<>>,
            created_at |-> <<0, 0>>, rid |-> id]
      [] shape = "not_object" -> [rid |-> id]

\* The lists of up to MaxEntries entries, with at most one UTC offset among
\* them.
EntryLists ==
    {[i \in DOMAIN f |-> Entry(f[i], i)] :
        f \in {g \in UNION {[1..n -> EntryShapes] : n \in 0..MaxEntries} :
                  Cardinality({i \in DOMAIN g : g[i] = "offset"}) <= 1}}

Files ==
    {None} \cup {NotAList(k) : k \in {"unreadable", "object", "scalar"}}
           \cup {Some(es) : es \in EntryLists}

\* The process is up; the list in memory is empty, as constructed, or holds a
\* reminder (load_reminders runs again when a second ready event arrives
\* before has_initialized is set).
InitStorage ==
    /\ now = 0
    /\ proc = "up"
    /\ reminders \in {<<>>, <<[user_id |-> 1, message |-> "m", remind_time |-> 3,
                              created_at |-> 0, rid |-> MaxEntries + 1]>>}
    /\ reminders_file \in Files
    /\ shutdown_file = None
    /\ has_initialized = FALSE
    /\ checker_running = FALSE
    /\ ready = <<>>
    /\ poll = <<>>
    /\ nextId = 1
    /\ starts = 1
    /\ popped = {}
    /\ dt_returned = 0
    /\ last = Did("init")
    /\ parse_call = <<>>
    /\ parse_result = <<>>

\* load_reminders is called; the file can be read, or reading it fails.  The
\* step records the file as the call saw it.
LoadReminders(readable) ==
    /\ proc = "up"
    /\ LET seen == IF readable \/ reminders_file = None
                   THEN reminders_file ELSE NotAList("unreadable")
           st   == load_reminders([Store EXCEPT !.file = seen])
       IN  /\ reminders' = st.reminders
           /\ last' = [Did("load") EXCEPT !.file = seen]
    /\ UNCHANGED <<now, proc, reminders_file, shutdown_file, has_initialized,
                   checker_running, ready, poll, nextId, starts, popped, dt_returned>>
    /\ UNCHANGED parser_vars

\* save_reminders is called; it writes the file, or open() fails, or the write
\* fails.
SaveReminders(outcome) ==
    /\ proc = "up"
    /\ IF outcome = "ok"
       THEN SetStore(save_reminders(Store)) /\ last' = Did("save")
       ELSE /\ SetStore(save_reminders_failed(Store, outcome = "write_failed"))
            /\ last' = Did("save_failed")
    /\ UNCHANGED <<now, proc, has_initialized, checker_running, ready, poll,
                   nextId, starts, popped, dt_returned>>
    /\ UNCHANGED parser_vars

NextStorage ==
    \/ \E readable \in BOOLEAN : LoadReminders(readable)
    \/ \E outcome \in {"ok", "open_failed", "write_failed"} : SaveReminders(outcome)

SpecStorage == InitStorage /\ [][NextStorage]_vars

\* ------------------------------------------------------ calendar datetimes
\* The parser works on calendar datetimes: records of year, month, day, hour,
\* minute, second and microsecond, with the arithmetic of Python's datetime
\* (proleptic Gregorian calendar, years 1..9999).
MAXYEAR == 9999
MAXORDINAL == 3652059              \* date(9999, 12, 31).toordinal()
MAX_DELTA_DAYS == 999999999        \* timedelta.max.days

datetime(y, mo, d, h, mi, sec, us) ==
    [year |-> y, month |-> mo, day |-> d, hour |-> h, minute |-> mi,
     second |-> sec, microsecond |-> us]

is_leap(y) == y % 4 = 0 /\ (y % 100 # 0 \/ y % 400 = 0)

days_in_month(y, mo) ==
    IF mo = 2 THEN (IF is_leap(y) THEN 29 ELSE 28)
    ELSE IF mo \in {4, 6, 9, 11} THEN 30 ELSE 31

days_before_year(y) ==
    LET p == y - 1 IN p * 365 + p \div 4 - p \div 100 + p \div 400

RECURSIVE days_before_month(_, _)
days_before_month(y, mo) ==
    IF mo = 1 THEN 0 ELSE days_before_month(y, mo - 1) + days_in_month(y, mo - 1)

\* date.toordinal(): 1 for 0001-01-01.
toordinal(dt) == days_before_year(dt.year) + days_before_month(dt.year, dt.month) + dt.day

\* The month and day of the n-th day (from 0) of year y.
RECURSIVE month_day(_, _, _)
month_day(y, mo, n) ==
    IF n < days_in_month(y, mo) THEN <<mo, n + 1>>
    ELSE month_day(y, mo + 1, n - days_in_month(y, mo))

\* date.fromordinal(), as <<year, month, day>>.
fromordinal(ord) ==
    LET n0   == ord - 1
        n400 == n0 \div 146097
        r400 == n0 % 146097
        n100 == r400 \div 36524
        r100 == r400 % 36524
        n4   == r100 \div 1461
        r4   == r100 % 1461
        n1   == r4 \div 365
        r1   == r4 % 365
        y    == n400 * 400 + 1 + n100 * 100 + n4 * 4 + n1
    IN  IF n1 = 4 \/ n100 = 4 THEN <<y - 1, 12, 31>>
        ELSE LET md == month_day(y, 1, r1) IN <<y, md[1], md[2]>>

second_of_day(dt) == dt.hour * 3600 + dt.minute * 60 + dt.second

\* A value that is there or an exception: what a call that can raise gives.
Raised(exc) == <<exc, "raised">>

\* datetime + timedelta for a timedelta of days and seconds (0 <= seconds <
\* 86400, as timedelta normalizes them): the datetime, or OverflowError when
\* the date leaves 0001-01-01..9999-12-31.
datetime_add(dt, days, seconds) ==
    LET sod == second_of_day(dt) + seconds
        ord == toordinal(dt) + days + sod \div 86400
        rem == sod % 86400
    IN  IF ord < 1 \/ ord > MAXORDINAL THEN Raised("OverflowError")
        ELSE LET ymd == fromordinal(ord)
             IN  Some(datetime(ymd[1], ymd[2], ymd[3], rem \div 3600,
                               (rem % 3600) \div 60, rem % 60, dt.microsecond))

\* a < b for two datetimes.
datetime_lt(a, b) ==
    LET ka == <<a.year, a.month, a.day, a.hour, a.minute, a.second, a.microsecond>>
        kb == <<b.year, b.month, b.day, b.hour, b.minute, b.second, b.microsecond>>
    IN  \E i \in 1..7 : ka[i] < kb[i] /\ \A j \in 1..(i - 1) : ka[j] = kb[j]

\* a <= b for two datetimes.
datetime_le(a, b) ==
    LET ka == <<a.year, a.month, a.day, a.hour, a.minute, a.second, a.microsecond>>
        kb == <<b.year, b.month, b.day, b.hour, b.minute, b.second, b.microsecond>>
    IN  \/ ka = kb
        \/ \E i \in 1..7 : ka[i] < kb[i] /\ \A j \in 1..(i - 1) : ka[j] = kb[j]

\* datetime(...) and datetime.replace(...) raise ValueError for a date that
\* does not exist.
date_exists(y, mo, d) ==
    /\ y \in 1..MAXYEAR
    /\ mo \in 1..12
    /\ d \in 1..days_in_month(y, mo)

\* ------------------------------------------------------------- the parser
\* The text of a reminder time is the sequence of its tokens, after strip():
\* a run of digits (its value v and its width w), a run of whitespace ("ws"),
\* one of the characters "/", "-", ":", or a run of letters in lower case
\* ("in", "tomorrow", "at", "am", "pm", a unit, ...).  Letter case is not
\* modelled: the relative and the tomorrow classes match lowered, and strptime
\* matches %p whatever the case.
Num(v, w) == [k |-> "num", v |-> v, w |-> w]
Lit(k) == [k |-> k, v |-> 0, w |-> 0]

\* How one directive of a strptime format matches one token: the regular
\* expressions of _strptime for %m, %d, %H, %I, %M (one or two digits in
\* range), %Y (four digits), %y (two digits), %p; a blank of the format matches
\* a run of whitespace; any other character matches itself.
directive_matches(dir, tok) ==
    CASE dir = "%m" -> tok.k = "num" /\ tok.w \in 1..2 /\ tok.v \in 1..12
      [] dir = "%d" -> tok.k = "num" /\ tok.w \in 1..2 /\ tok.v \in 1..31
      [] dir = "%H" -> tok.k = "num" /\ tok.w \in 1..2 /\ tok.v \in 0..23
      [] dir = "%I" -> tok.k = "num" /\ tok.w \in 1..2 /\ tok.v \in 1..12
      [] dir = "%M" -> tok.k = "num" /\ tok.w \in 1..2 /\ tok.v \in 0..59
      [] dir = "%Y" -> tok.k = "num" /\ tok.w = 4
      [] dir = "%y" -> tok.k = "num" /\ tok.w = 2
      [] dir = "%p" -> tok.k \in {"am", "pm"}
      [] dir = " "  -> tok.k = "ws"
      [] OTHER      -> tok.k = dir

\* The token a directive of the format matched.
field(text, fmt, dir) == text[CHOOSE i \in 1..Len(fmt) : fmt[i] = dir]

has(fmt, dir) == \E i \in 1..Len(fmt) : fmt[i] = dir

\* datetime.strptime(text, fmt): the datetime, or None for ValueError (the text
\* does not match the format, or the date does not exist).  The defaults are
\* 1900-01-01 00:00; %y is 19yy from 69 on and 20yy below; %I with %p is the
\* hour of the 12-hour clock.  The formats of this program have one token for
\* every directive.
strptime(text, fmt) ==
    IF Len(text) # Len(fmt) THEN None
    ELSE IF \E i \in 1..Len(fmt) : ~directive_matches(fmt[i], text[i]) THEN None
    ELSE LET y  == IF has(fmt, "%Y") THEN field(text, fmt, "%Y").v
                   ELSE IF has(fmt, "%y")
                        THEN (IF field(text, fmt, "%y").v <= 68
                              THEN 2000 + field(text, fmt, "%y").v
                              ELSE 1900 + field(text, fmt, "%y").v)
                        ELSE 1900
             mo == IF has(fmt, "%m") THEN field(text, fmt, "%m").v ELSE 1
             d  == IF has(fmt, "%d") THEN field(text, fmt, "%d").v ELSE 1
             h  == IF has(fmt, "%H") THEN field(text, fmt, "%H").v
                   ELSE IF has(fmt, "%I")
                        THEN (IF has(fmt, "%p") /\ field(text, fmt, "%p").k = "pm"
                              THEN (IF field(text, fmt, "%I").v = 12 THEN 12
                                    ELSE field(text, fmt, "%I").v + 12)
                              ELSE (IF field(text, fmt, "%I").v = 12 THEN 0
                                    ELSE field(text, fmt, "%I").v))
                        ELSE 0
             mi == IF has(fmt, "%M") THEN field(text, fmt, "%M").v ELSE 0
         IN  IF date_exists(y, mo, d) THEN Some(datetime(y, mo, d, h, mi, 0, 0)) ELSE None

\* add_one_year: the same date a year later, Feb 28 when that raises
\* ValueError, and ValueError when that raises as well.
add_one_year(dt) ==
    IF date_exists(dt.year + 1, dt.month, dt.day)
    THEN Some([dt EXCEPT !.year = @ + 1])
    ELSE IF date_exists(dt.year + 1, 2, 28)
         THEN Some([dt EXCEPT !.year = @ + 1, !.month = 2, !.day = 28])
         ELSE Raised("ValueError")

\* normalize_2_digit_year left out: strptime's year as it is.
normalize_2_digit_year_identity(dt) == dt

\* normalize_2_digit_year (19yy + 100 is a leap year when 19yy is, so replace
\* does not raise).
normalize_2_digit_year(dt) ==
    IF dt.year < 2000 THEN [dt EXCEPT !.year = @ + 100] ELSE dt

\* The clock formats of "tomorrow at" and of the time-only class.
clock_formats ==
    << <<"%H", ":", "%M">>,
       <<"%I", ":", "%M", " ", "%p">>,
       <<"%I", ":", "%M", "%p">> >>

\* The format lists of parse_reminder_time, in its order.
date_time_with_year ==
    << <<"%m", "/", "%d", "/", "%Y", " ", "%H", ":", "%M">>,
       <<"%m", "-", "%d", "-", "%Y", " ", "%H", ":", "%M">>,
       <<"%Y", "-", "%m", "-", "%d", " ", "%H", ":", "%M">>,
       <<"%m", "/", "%d", "/", "%Y", " ", "%I", ":", "%M", " ", "%p">>,
       <<"%m", "/", "%d", "/", "%Y", " ", "%I", ":", "%M", "%p">>,
       <<"%m", "-", "%d", "-", "%Y", " ", "%I", ":", "%M", " ", "%p">>,
       <<"%m", "-", "%d", "-", "%Y", " ", "%I", ":", "%M", "%p">>,
       <<"%Y", "-", "%m", "-", "%d", " ", "%I", ":", "%M", " ", "%p">>,
       <<"%Y", "-", "%m", "-", "%d", " ", "%I", ":", "%M", "%p">>,
       <<"%m", "/", "%d", "/", "%y", " ", "%H", ":", "%M">>,
       <<"%m", "-", "%d", "-", "%y", " ", "%H", ":", "%M">>,
       <<"%m", "/", "%d", "/", "%y", " ", "%I", ":", "%M", " ", "%p">>,
       <<"%m", "/", "%d", "/", "%y", " ", "%I", ":", "%M", "%p">>,
       <<"%m", "-", "%d", "-", "%y", " ", "%I", ":", "%M", " ", "%p">>,
       <<"%m", "-", "%d", "-", "%y", " ", "%I", ":", "%M", "%p">> >>

\* Date and time without year.
date_time_without_year ==
    << <<"%m", "/", "%d", " ", "%H", ":", "%M">>,
       <<"%m", "-", "%d", " ", "%H", ":", "%M">>,
       <<"%m", "/", "%d", " ", "%I", ":", "%M", " ", "%p">>,
       <<"%m", "/", "%d", " ", "%I", ":", "%M", "%p">>,
       <<"%m", "-", "%d", " ", "%I", ":", "%M", " ", "%p">>,
       <<"%m", "-", "%d", " ", "%I", ":", "%M", "%p">> >>

\* Date only, with year.
date_only_with_year ==
    << <<"%m", "/", "%d", "/", "%Y">>,
       <<"%m", "-", "%d", "-", "%Y">>,
       <<"%Y", "-", "%m", "-", "%d">>,
       <<"%m", "/", "%d", "/", "%y">>,
       <<"%m", "-", "%d", "-", "%y">> >>

\* Date only, without year.
date_only_without_year ==
    << <<"%m", "/", "%d">>,
       <<"%m", "-", "%d">> >>

\* The units of the relative format and what startswith makes of them: a unit
\* that begins with "s" is seconds, with "m" minutes, with "h" hours; what is
\* left is days.
Units ==
    {"seconds", "second", "secs", "sec", "s", "minutes", "minute", "mins", "min", "m",
     "hours", "hour", "hrs", "hr", "h", "days", "day", "d"}

unit_initial(unit) ==
    CASE unit \in {"seconds", "second", "secs", "sec", "s"} -> "s"
      [] unit \in {"minutes", "minute", "mins", "min", "m"} -> "m"
      [] unit \in {"hours", "hour", "hrs", "hr", "h"} -> "h"
      [] OTHER -> "d"

\* re.fullmatch(r"in\s+(\d+)\s*(unit)", lowered)
relative_match(text) ==
    \/ /\ Len(text) = 4
       /\ text[1].k = "in" /\ text[2].k = "ws" /\ text[3].k = "num"
       /\ text[4].k \in Units
    \/ /\ Len(text) = 5
       /\ text[1].k = "in" /\ text[2].k = "ws" /\ text[3].k = "num"
       /\ text[4].k = "ws" /\ text[5].k \in Units

\* now + timedelta(<unit>=amount): timedelta normalizes to days and seconds
\* and raises OverflowError beyond 999999999 days, and so does the sum beyond
\* year 9999.
add_amount(now_, amount, unit) ==
    LET i    == unit_initial(unit)
        days == CASE i = "s" -> amount \div 86400
                  [] i = "m" -> amount \div 1440
                  [] i = "h" -> amount \div 24
                  [] OTHER   -> amount
        secs == CASE i = "s" -> amount % 86400
                  [] i = "m" -> (amount % 1440) * 60
                  [] i = "h" -> (amount % 24) * 3600
                  [] OTHER   -> 0
    IN  IF days > MAX_DELTA_DAYS THEN Raised("OverflowError")
        ELSE datetime_add(now_, days, secs)

\* now + timedelta(days=1) with hour and minute replaced, and the seconds and
\* microseconds of now kept.
tomorrow_at_keeps_seconds(now_, h, mi) ==
    LET t == datetime_add(now_, 1, 0)
    IN  IF Len(t) # 1 THEN t
        ELSE Some([t[1] EXCEPT !.hour = h, !.minute = mi])

\* (now + timedelta(days=1)).replace(hour, minute, second=0, microsecond=0)
tomorrow_at(now_, h, mi) ==
    LET t == datetime_add(now_, 1, 0)
    IN  IF Len(t) # 1 THEN t
        ELSE Some([t[1] EXCEPT !.hour = h, !.minute = mi, !.second = 0, !.microsecond = 0])

\* re.fullmatch(r"tomorrow(?:\s+at)?\s+(.+)", lowered): group 1, or None.
tomorrow_with_time(text) ==
    IF Len(text) >= 3 /\ text[1].k = "tomorrow" /\ text[2].k = "ws"
    THEN IF Len(text) >= 5 /\ text[3].k = "at" /\ text[4].k = "ws"
         THEN Some(SubSeq(text, 5, Len(text)))
         ELSE Some(SubSeq(text, 3, Len(text)))
    ELSE None

\* try_format with the roll of the classes without year applied to the classes
\* with year as well: a date with year that is not after now moves one year on.
try_format_rolls_year(class, text, fmt, now_) ==
    LET p == strptime(text, fmt) IN
    IF p = None THEN None
    ELSE CASE class = "tomorrow_at" ->
                tomorrow_at(now_, p[1].hour, p[1].minute)
           [] class = "date_time_with_year" ->
                LET target == IF has(fmt, "%y") THEN normalize_2_digit_year(p[1]) ELSE p[1]
                    rolled == add_one_year(target)
                IN  IF ~datetime_le(target, now_) THEN Some(target)
                    ELSE IF Len(rolled) = 1 THEN rolled ELSE None
           [] class = "date_time_without_year" ->
                IF ~date_exists(now_.year, p[1].month, p[1].day) THEN None
                ELSE LET target == [p[1] EXCEPT !.year = now_.year, !.second = 0,
                                                !.microsecond = 0]
                         rolled == add_one_year(target)
                     IN  IF ~datetime_le(target, now_) THEN Some(target)
                         ELSE IF Len(rolled) = 1 THEN rolled ELSE None
           [] class = "date_only_with_year" ->
                LET target == [(IF has(fmt, "%y") THEN normalize_2_digit_year(p[1]) ELSE p[1])
                                 EXCEPT !.hour = now_.hour, !.minute = now_.minute,
                                        !.second = 0, !.microsecond = 0]
                    rolled == add_one_year(target)
                IN  IF ~datetime_le(target, now_) THEN Some(target)
                    ELSE IF Len(rolled) = 1 THEN rolled ELSE None
           [] class = "date_only_without_year" ->
                IF ~date_exists(now_.year, p[1].month, p[1].day) THEN None
                ELSE LET target == [p[1] EXCEPT !.year = now_.year,
                                                !.hour = now_.hour, !.minute = now_.minute,
                                                !.second = 0, !.microsecond = 0]
                         rolled == add_one_year(target)
                     IN  IF ~datetime_le(target, now_) THEN Some(target)
                         ELSE IF Len(rolled) = 1 THEN rolled ELSE None
           [] class = "time_only" ->
                LET target == [now_ EXCEPT !.hour = p[1].hour, !.minute = p[1].minute,
                                           !.second = 0, !.microsecond = 0]
                IN  IF datetime_le(target, now_) THEN datetime_add(target, 1, 0)
                    ELSE Some(target)

\* What parse_reminder_time does with one format of a class: the datetime it
\* returns, None when the try ends in ValueError (and the loop goes on to the
\* next format), or the exception that leaves the function.
try_format(class, text, fmt, now_) ==
    LET p == strptime(text, fmt) IN
    IF p = None THEN None
    ELSE CASE class = "tomorrow_at" ->
                tomorrow_at(now_, p[1].hour, p[1].minute)
           [] class = "date_time_with_year" ->
                Some(IF has(fmt, "%y") THEN normalize_2_digit_year(p[1]) ELSE p[1])
           [] class = "date_time_without_year" ->
                IF ~date_exists(now_.year, p[1].month, p[1].day) THEN None
                ELSE LET target == [p[1] EXCEPT !.year = now_.year, !.second = 0,
                                                !.microsecond = 0]
                         rolled == add_one_year(target)
                     IN  IF ~datetime_le(target, now_) THEN Some(target)
                         ELSE IF Len(rolled) = 1 THEN rolled ELSE None
           [] class = "date_only_with_year" ->
                Some([(IF has(fmt, "%y") THEN normalize_2_digit_year(p[1]) ELSE p[1])
                        EXCEPT !.hour = now_.hour, !.minute = now_.minute,
                               !.second = 0, !.microsecond = 0])
           [] class = "date_only_without_year" ->
                IF ~date_exists(now_.year, p[1].month, p[1].day) THEN None
                ELSE LET target == [p[1] EXCEPT !.year = now_.year,
                                                !.hour = now_.hour, !.minute = now_.minute,
                                                !.second = 0, !.microsecond = 0]
                         rolled == add_one_year(target)
                     IN  IF ~datetime_le(target, now_) THEN Some(target)
                         ELSE IF Len(rolled) = 1 THEN rolled ELSE None
           [] class = "time_only" ->
                LET target == [now_ EXCEPT !.hour = p[1].hour, !.minute = p[1].minute,
                                           !.second = 0, !.microsecond = 0]
                IN  IF datetime_le(target, now_) THEN datetime_add(target, 1, 0)
                    ELSE Some(target)

\* The for loop over the formats of a class, from format i on: the first
\* format that does not end in ValueError decides; None when all of them do.
RECURSIVE try_formats(_, _, _, _, _)
try_formats(class, text, fmts, i, now_) ==
    IF i > Len(fmts) THEN None
    ELSE LET r == try_format(class, text, fmts[i], now_)
         IN  IF r # None THEN r ELSE try_formats(class, text, fmts, i + 1, now_)

\* parse_reminder_time that returns None after the date classes, without
\* trying the time-only formats.
parse_reminder_time_without_time_only(text, now_) ==
    IF text = <<>> THEN None
    ELSE IF relative_match(text)
    THEN LET amount == text[3].v
             unit   == text[Len(text)].k
         IN  IF amount <= 0 THEN None ELSE add_amount(now_, amount, unit)
    ELSE IF Len(text) = 1 /\ text[1].k \in {"tomorrow", "tmr", "tmrw"}
    THEN tomorrow_at(now_, now_.hour, now_.minute)
    ELSE LET time_part == tomorrow_with_time(text)
             c3 == IF time_part = None THEN None
                   ELSE try_formats("tomorrow_at", time_part[1], clock_formats, 1, now_)
             c4 == try_formats("date_time_with_year", text, date_time_with_year, 1, now_)
             c5 == try_formats("date_time_without_year", text, date_time_without_year, 1, now_)
             c6 == try_formats("date_only_with_year", text, date_only_with_year, 1, now_)
             c7 == try_formats("date_only_without_year", text, date_only_without_year, 1, now_)
         IN  IF c3 # None THEN c3
             ELSE IF c4 # None THEN c4
             ELSE IF c5 # None THEN c5
             ELSE IF c6 # None THEN c6
             ELSE c7

\* parse_reminder_time(time_str, now) on the tokens of time_str.strip(): Some
\* datetime, None, or the exception it raises.
parse_reminder_time(text, now_) ==
    IF text = <<>> THEN None
    ELSE IF relative_match(text)
    THEN LET amount == text[3].v
             unit   == text[Len(text)].k
         IN  IF amount <= 0 THEN None ELSE add_amount(now_, amount, unit)
    ELSE IF Len(text) = 1 /\ text[1].k \in {"tomorrow", "tmr", "tmrw"}
    THEN tomorrow_at(now_, now_.hour, now_.minute)
    ELSE LET time_part == tomorrow_with_time(text)
             c3 == IF time_part = None THEN None
                   ELSE try_formats("tomorrow_at", time_part[1], clock_formats, 1, now_)
             c4 == try_formats("date_time_with_year", text, date_time_with_year, 1, now_)
             c5 == try_formats("date_time_without_year", text, date_time_without_year, 1, now_)
             c6 == try_formats("date_only_with_year", text, date_only_with_year, 1, now_)
             c7 == try_formats("date_only_without_year", text, date_only_without_year, 1, now_)
             c8 == try_formats("time_only", text, clock_formats, 1, now_)
         IN  IF c3 # None THEN c3
             ELSE IF c4 # None THEN c4
             ELSE IF c5 # None THEN c5
             ELSE IF c6 # None THEN c6
             ELSE IF c7 # None THEN c7
             ELSE c8

\* --------------------------------------------- the parser's specification
\* The third specification: one call of parse_reminder_time, on a text and a
\* now drawn from the sets below.
WS == Lit("ws")

\* A number as it is typed, without leading zeros, and with two digits.
Digits(v) ==
    Num(v, IF v < 10 THEN 1 ELSE IF v < 100 THEN 2 ELSE IF v < 1000 THEN 3
           ELSE IF v < 10000 THEN 4 ELSE IF v < 100000 THEN 5
           ELSE IF v < 1000000 THEN 6 ELSE 7)

Two(v) == Num(v, 2)

\* "in <amount> <unit>", with or without the blank before the unit.
RelativeText(amount, unit, spaced) ==
    <<Lit("in"), WS, Digits(amount)>> \o (IF spaced THEN <<WS>> ELSE <<>>) \o <<Lit(unit)>>

\* A clock time for hour h (0..23) and minute mi: "14:30", "2:30 PM", "2:30PM".
ClockStyles == {"24", "12 p", "12p"}

ClockText(h, mi, style) ==
    IF style = "24" THEN <<Digits(h), Lit(":"), Two(mi)>>
    ELSE <<Digits(IF h % 12 = 0 THEN 12 ELSE h % 12), Lit(":"), Two(mi)>>
         \o (IF style = "12 p" THEN <<WS>> ELSE <<>>)
         \o <<Lit(IF h < 12 THEN "am" ELSE "pm")>>

\* "MM/DD" or "MM-DD".
DateText(mo, d, sep) == <<Two(mo), Lit(sep), Two(d)>>

\* "MM/DD/YYYY", "MM-DD-YYYY", "MM/DD/YY", "MM-DD-YY" (w digits of year), and
\* "YYYY-MM-DD" for sep = "iso".
DateYearText(mo, d, y, w, sep) ==
    IF sep = "iso" THEN <<Num(y, w), Lit("-"), Two(mo), Lit("-"), Two(d)>>
    ELSE <<Two(mo), Lit(sep), Two(d), Lit(sep), Num(y, w)>>

\* The text with a clock time behind it, or as it is.
WithClock(text, clock) == IF clock = <<>> THEN text ELSE text \o <<WS>> \o clock

Amounts == {0, 1, 45, 100000, 3000000}
ClockHours == {0, 9, 12, 14, 23}
ClockMinutes == {0, 30}
MonthDays == {<<1, 1>>, <<2, 28>>, <<2, 29>>, <<3, 10>>, <<10, 8>>, <<12, 31>>}
Years2 == {0, 24, 25, 68, 69, 72, 99}
Years4 == {1999, 2024, 2025}

Clocks == {ClockText(h, mi, st) : h \in ClockHours, mi \in ClockMinutes, st \in ClockStyles}

\* The clock times that dates are combined with (hour, minute, style), and no
\* clock time.
DateClockParams == {<<>>, <<14, 30, "24">>, <<14, 30, "12 p">>, <<9, 0, "12p">>}

ClockOf(p) == IF p = <<>> THEN <<>> ELSE ClockText(p[1], p[2], p[3])

DateClocks == {ClockOf(p) : p \in DateClockParams}

RelativeTexts == {RelativeText(a, u, sp) : a \in Amounts, u \in Units, sp \in BOOLEAN}

TomorrowTexts ==
    {<<Lit(w)>> : w \in {"tomorrow", "tmr", "tmrw"}}
    \cup {<<Lit("tomorrow"), WS>> \o c : c \in Clocks}
    \cup {<<Lit("tomorrow"), WS, Lit("at"), WS>> \o c : c \in Clocks}

DateTexts ==
    {WithClock(DateText(md[1], md[2], sep), c) :
        md \in MonthDays, sep \in {"/", "-"}, c \in DateClocks}

Date2Texts ==
    {WithClock(DateYearText(md[1], md[2], y, 2, sep), c) :
        md \in MonthDays, y \in Years2, sep \in {"/", "-"}, c \in DateClocks}

Date4Texts ==
    {WithClock(DateYearText(md[1], md[2], y, 4, sep), c) :
        md \in MonthDays, y \in Years4, sep \in {"/", "-", "iso"}, c \in DateClocks}

Texts ==
    {<<>>, <<Lit("soon")>>} \cup RelativeTexts \cup TomorrowTexts \cup Clocks
        \cup DateTexts \cup Date2Texts \cup Date4Texts

\* The reference instants: the clock of a running bot, in years that leave
\* room below MAXYEAR for the day or the year the parser may add.
Nows ==
    {datetime(2025, 3, 10, 9, 0, 0, 0), datetime(2025, 3, 10, 15, 0, 0, 0),
     datetime(2025, 3, 10, 14, 30, 0, 0), datetime(2025, 3, 10, 14, 30, 20, 5),
     datetime(2025, 6, 1, 8, 15, 30, 0), datetime(2024, 1, 10, 9, 0, 0, 0),
     datetime(2024, 3, 10, 9, 0, 0, 0), datetime(2025, 12, 31, 23, 30, 0, 0)}

\* No call has returned yet.
NoResult == <<"no", "result", "yet">>

InitParse ==
    /\ parse_call \in [time_str : Texts, now : Nows]
    /\ parse_result = NoResult
    /\ now = 0
    /\ proc = "up"
    /\ reminders = <<>>
    /\ reminders_file = None
    /\ shutdown_file = None
    /\ has_initialized = FALSE
    /\ checker_running = FALSE
    /\ ready = <<>>
    /\ poll = <<>>
    /\ nextId = 1
    /\ starts = 1
    /\ popped = {}
    /\ dt_returned = 0
    /\ last = Did("init")

\* The call returns or raises.
ParseReminderTime ==
    /\ parse_result = NoResult
    /\ parse_result' = parse_reminder_time(parse_call.time_str, parse_call.now)
    /\ UNCHANGED <<now, proc, reminders, reminders_file, shutdown_file, has_initialized,
                   checker_running, ready, poll, nextId, starts, popped, dt_returned,
                   last, parse_call>>

NextParse == ParseReminderTime

SpecParse == InitParse /\ [][NextParse]_vars

\* ----------------------------------------------------------- properties
Range(s) == {s[i] : i \in 1..Len(s)}

\* How often reminder r is in list s.
Count(s, r) == Cardinality({i \in 1..Len(s) : s[i] = r})

\* How many entries of list s carry rid id.
CountRid(s, id) == Cardinality({i \in 1..Len(s) : s[i].rid = id})

\* List c is list a with list b merged in, entry for entry.
IsSplit(a, b, c) ==
    \A r \in Range(a) \cup Range(b) \cup Range(c) : Count(c, r) = Count(a, r) + Count(b, r)

PopOps == {"poll", "on_ready_init"}
DeliverOps == {"deliver", "deliver_missed"}

\* The list pop_due_reminders saw in the last step: on_ready loads first.
SeenByPop ==
    IF last.op = "on_ready_init" /\ last.file # None
    THEN FromEntries(last.file[1])
    ELSE last.pending

\* C1: pop_due_reminders at instant now returns exactly the pending reminders
\* with remind_time <= now and leaves exactly those with remind_time > now:
\* every reminder that was pending is afterwards in exactly one of the returned
\* list and the pending list, and neither holds a reminder that was not pending.
C1_PopPartitions ==
    last.op \in PopOps =>
        /\ \A r \in Range(last.ret) : r.remind_time <= now
        /\ \A r \in Range(reminders) : r.remind_time > now
        /\ IsSplit(last.ret, reminders, SeenByPop)
        /\ \A r \in Range(SeenByPop) :
              Count(last.ret, r) = (IF r.remind_time <= now THEN Count(SeenByPop, r) ELSE 0)

\* C1 witness: a pop has returned one reminder and left another pending.
C1_Witness ==
    /\ last.op = "poll"
    /\ last.ret # <<>>
    /\ reminders # <<>>

\* The rids the last step put into the pending list: more entries after the
\* step than before it or, in on_ready, more entries loaded than were there.
Reinserted ==
    {id \in 1..MaxAdds :
        \/ CountRid(reminders, id) > CountRid(last.pending, id)
        \/ last.op = "on_ready_init" /\ CountRid(SeenByPop, id) > CountRid(last.pending, id)}

RequeueOf(id) ==
    /\ last.op \in DeliverOps
    /\ last.status = "retry"
    /\ last.reminder.rid = id

C3_OutcomesHandledDistinctly ==
    last.op \in DeliverOps =>
        IF last.status = "retry"
        THEN /\ Len(reminders) = Len(last.pending) + 1
             /\ CountRid(reminders, last.reminder.rid)
                  = CountRid(last.pending, last.reminder.rid) + 1
             /\ \A r \in Range(last.pending) : Count(reminders, r) >= Count(last.pending, r)
        ELSE reminders = last.pending

\* C3 witness: a delivery returned drop and one returned retry, seen from the
\* state after the retry: the dropped reminder is gone, the other is requeued.
C3_Witness ==
    /\ last.op = "deliver"
    /\ last.status = "retry"
    /\ \E id \in popped : id # last.reminder.rid /\ CountRid(reminders, id) = 0

\* The copy requeue_reminder makes of a reminder at instant t.
IsRequeuedCopy(c, r, t) ==
    /\ c.remind_time = t + REMINDER_RETRY_DELAY
    /\ c.user_id = r.user_id
    /\ c.message = r.message
    /\ c.created_at = r.created_at

\* C4: a requeue at instant now puts into the pending list one copy of the
\* reminder with remind_time = now + REMINDER_RETRY_DELAY (5 minutes) and the
\* reminder's user_id, message and created_at; a pop returns what is in the
\* pending list with remind_time <= its instant and nothing else, so that copy
\* at now + delay and not before.
C4_RequeueDelaysFromNow ==
    /\ (last.op \in DeliverOps /\ last.status = "retry") =>
          \E c \in Range(reminders) :
              /\ IsRequeuedCopy(c, last.reminder, now)
              /\ Count(reminders, c) = Count(last.pending, c) + 1
              /\ \A r \in Range(reminders) \cup Range(last.pending) :
                    r # c => Count(reminders, r) = Count(last.pending, r)
    /\ last.op \in PopOps =>
          \A r \in Range(SeenByPop) :
              /\ r.remind_time <= now => r \in Range(last.ret) /\ r \notin Range(reminders)
              /\ r.remind_time > now => r \notin Range(last.ret) /\ r \in Range(reminders)

\* C4 witness: a requeue has happened later than the reminder's remind_time.
C4_Witness ==
    /\ last.op \in DeliverOps
    /\ last.status = "retry"
    /\ now > last.reminder.remind_time
    /\ \E c \in Range(reminders) : IsRequeuedCopy(c, last.reminder, now)

\* C5: when the process ends by a signal or by bot.run returning or raising,
\* the shutdown marker exists (and holds the instant of the exit) and the
\* reminders file holds the pending list the process had in memory.
C5_ShutdownSequenceRuns ==
    last.op \in {"signal", "run_exit"} =>
        /\ proc = "down"
        /\ shutdown_file # None
        /\ fromisoformat(shutdown_file[1]) = now
        /\ reminders_file # None
        /\ FromEntries(reminders_file[1]) = last.pending

\* C5 witness: a signal ended a process that had a reminder pending and the
\* file did not hold it as it was in memory.
C5_Witness ==
    /\ last.op = "signal"
    /\ last.pending # <<>>
    /\ last.file # reminders_file

\* C6: between two save_shutdown_time calls at most one get_downtime call
\* returns a duration: a call that finds the marker deletes it, and a call that
\* finds none returns None.
C6_DowntimeConsumedOnce ==
    /\ dt_returned <= 1
    /\ last.op = "on_ready_init" =>
          /\ shutdown_file = None
          /\ (last.marker = None) = (last.downtime = None)

\* C6 witness: a second get_downtime after the one that consumed the marker
\* has returned None.
C6_Witness ==
    /\ last.op = "on_ready_init"
    /\ dt_returned = 1
    /\ last.downtime = None

\* C7: the recovery of on_ready loads, then get_downtime, then pops: what was
\* loaded with remind_time <= now is what it will deliver, with missed = TRUE
\* and the downtime get_downtime returned (None without a marker), and what was
\* loaded with remind_time > now stays pending.
C7_RecoveryOrder ==
    /\ last.op = "on_ready_init" =>
          /\ last.downtime = (IF last.marker = None THEN None
                               ELSE Some(now - fromisoformat(last.marker[1])))
          /\ IsSplit(last.ret, reminders, SeenByPop)
          /\ \A r \in Range(last.ret) : r.remind_time <= now
          /\ \A r \in Range(reminders) : r.remind_time > now
          /\ last.ret # <<>> =>
                /\ ready # <<>>
                /\ ready[Len(ready)] = [due |-> last.ret, downtime |-> last.downtime]
    /\ \A i \in 1..Len(ready) :
          missed_deliver_args(ready[i]) = [missed |-> TRUE, downtime |-> ready[i].downtime]
    /\ last.op = "deliver_missed" => last.missed

\* C7 witness: the recovery of a restarted process delivers a reminder that
\* was loaded, with the downtime of a marker, while another stays pending.
C7_Witness ==
    /\ last.op = "deliver_missed"
    /\ last.downtime # None
    /\ starts > 1
    /\ reminders # <<>>

\* C8: the pending list is in ascending order of remind_time.
C8_PendingSorted ==
    \A i \in 1..Len(reminders) - 1 :
        reminders[i].remind_time <= reminders[i + 1].remind_time

\* C8 witness: an add has put a reminder before one that was pending.
C8_Witness ==
    /\ last.op = "add"
    /\ Len(reminders) > 1
    /\ reminders[1].rid = last.reminder.rid
    /\ reminders[1].remind_time < reminders[2].remind_time

\* C9: after add_reminder the reminders file holds the new reminder, with
\* created_at the instant of the call, and exactly the pending list in memory.
C9_AddPersists ==
    last.op = "add" =>
        /\ reminders_file # None
        /\ FromEntries(reminders_file[1]) = reminders
        /\ \E e \in Range(reminders_file[1]) :
              /\ e.rid = last.reminder.rid
              /\ fromisoformat(e.created_at) = now
        /\ CountRid(reminders, last.reminder.rid) = 1
        /\ Len(reminders) = Len(last.pending) + 1

\* C9 witness: an add while the file was behind the memory (a pop or a requeue
\* had not been saved).
C9_Witness ==
    /\ last.op = "add"
    /\ now > 0
    /\ last.file # None
    /\ FromEntries(last.file[1]) # last.pending

\* The steps that write the reminders file.
WritesFile ==
    \/ last.op \in {"add", "disconnect", "signal", "run_exit"}
    \/ last.op \in DeliverOps /\ last.final

\* C10: pop_due_reminders and requeue_reminder leave the reminders file as it
\* is; only add, the save that ends a poller or recovery cycle, on_disconnect
\* and the shutdown sequence write it.
C10_OnlySavesWrite ==
    /\ reminders_file # last.file => WritesFile
    /\ last.op \in PopOps => reminders_file = last.file
    /\ \A r \in Range(reminders) :
          requeue_reminder(Store, r, REMINDER_RETRY_DELAY, now).file = reminders_file
    /\ pop_due_reminders(Store, now).st.file = reminders_file

\* C10 witness: a requeue in the middle of a cycle has left the file behind
\* the memory.
C10_Witness ==
    /\ last.op \in DeliverOps
    /\ last.status = "retry"
    /\ ~last.final
    /\ reminders_file = last.file
    /\ reminders_file # None
    /\ FromEntries(reminders_file[1]) # reminders

\* C11: an iteration of reminder_checker that pops something goes through the
\* popped list from its head, one delivery per reminder and none twice, puts
\* one copy back on retry and nothing otherwise, writes the reminders file at
\* no step but the one that handles the last outcome, and writes it there with
\* the pending list as it then is; an iteration that pops nothing ends at once
\* and leaves the pending list, the file and the marker as they were.
C11_PollCycle ==
    [][ /\ last'.op = "poll" =>
              /\ reminders_file' = reminders_file
              /\ shutdown_file' = shutdown_file
              /\ poll = <<>>
              /\ IF last'.ret = <<>>
                 THEN reminders' = reminders /\ poll' = <<>>
                 ELSE poll' = <<[due |-> last'.ret]>>
        /\ last'.op = "deliver" =>
              /\ poll # <<>>
              /\ last'.reminder = Head(poll[1].due)
              /\ Len(reminders') = Len(reminders) + (IF last'.status = "retry" THEN 1 ELSE 0)
              /\ IF Tail(poll[1].due) # <<>>
                 THEN /\ poll' = <<[due |-> Tail(poll[1].due)]>>
                      /\ reminders_file' = reminders_file
                 ELSE /\ poll' = <<>>
                      /\ reminders_file' = Some(ToEntries(reminders'))
        /\ poll' # poll => last'.op \in {"poll", "deliver", "signal", "run_exit", "crash"}
      ]_vars

\* C11 witness: the last of two deliveries of one iteration has been handled
\* (the first was requeued and is pending again) and the file was written.
C11_Witness ==
    /\ last.op = "deliver"
    /\ last.final
    /\ last.pending # <<>>
    /\ last.reminder.rid \in popped
    /\ \E r \in Range(last.pending) : r.rid # last.reminder.rid /\ r.remind_time > now
    /\ reminders_file = Some(ToEntries(reminders))
    /\ reminders_file # last.file

\* The reminder the last step created.
Created == CHOOSE r \in Range(reminders) : r.rid = last.reminder.rid

\* C12 as stated: remindme adds only when parse_reminder_time returned an
\* instant later than the instant it compares with, leaves the pending list
\* and the file alone otherwise, and so every reminder it creates has
\* remind_time later than its created_at.
C12_Original ==
    /\ last.op = "add" =>
          /\ last.parsed # None
          /\ last.parsed[1] > last.t
          /\ Created.remind_time = last.parsed[1]
          /\ Created.remind_time > Created.created_at
    /\ last.op = "remindme_refused" =>
          /\ last.parsed = None \/ last.parsed[1] <= last.t
          /\ reminders = last.pending
          /\ reminders_file = last.file

\* C12 (amended): remindme adds only when parse_reminder_time returned an
\* instant later than the instant it compares with, and leaves the pending
\* list and the file alone otherwise; every reminder it creates has remind_time
\* later than the instant of that comparison, and created_at is an instant
\* read after it.
C12_AddOnlyFuture ==
    /\ last.op = "add" =>
          /\ last.parsed # None
          /\ last.parsed[1] > last.t
          /\ Created.remind_time = last.parsed[1]
          /\ Created.remind_time > last.t
          /\ Created.created_at >= last.t
    /\ last.op = "remindme_refused" =>
          /\ last.parsed = None \/ last.parsed[1] <= last.t
          /\ reminders = last.pending
          /\ reminders_file = last.file

\* C12 witness: a reminder was added whose remind_time was later than the
\* instant of the comparison, to a list and a file that held another one.
C12_Witness ==
    /\ last.op = "add"
    /\ last.parsed = Some(last.t + 1)
    /\ last.pending # <<>>
    /\ last.file # None
    /\ reminders_file # last.file

\* The four fields of a reminder that the file holds.
Fields(r) ==
    [user_id |-> r.user_id, message |-> r.message,
     remind_time |-> r.remind_time, created_at |-> r.created_at]

\* Lists a and b hold the same reminders, each as often, in whatever order.
SameReminders(a, b) ==
    /\ Len(a) = Len(b)
    /\ \A i \in 1..Len(a) :
          Cardinality({j \in 1..Len(a) : Fields(a[j]) = Fields(a[i])})
            = Cardinality({j \in 1..Len(b) : Fields(b[j]) = Fields(a[i])})

C14_SkipsMalformed ==
    (/\ last.op = "load"
     /\ last.file # None
     /\ Len(last.file) = 1
     /\ \E i \in 1..Len(last.file[1]) : ~EntryLoads(last.file[1][i])) =>
        LET good == SelectSeq(last.file[1], EntryLoads)
        IN  /\ Len(reminders) = Len(good)
            /\ \A i \in 1..Len(good) : CountRid(reminders, good[i].rid) = 1
            /\ SameReminders(reminders, FromEntries(good))

\* C15: a save_reminders that fails leaves the pending list as it was and the
\* process up; a load_reminders that can not read the file, or finds that it
\* is no list, leaves the pending list empty and the process up.
C15_StorageFailuresContained ==
    /\ last.op = "save_failed" =>
          /\ reminders = last.pending
          /\ proc = "up"
    /\ (last.op = "load" /\ last.file # None /\ Len(last.file) # 1) =>
          /\ reminders = <<>>
          /\ proc = "up"
    /\ (last.op = "load" /\ last.file = None) => reminders = last.pending

\* C15 witness: a save has failed in the middle of the write and left the
\* list in memory alone, and the load after it found a file it can not decode
\* and emptied the list.
C15_Witness ==
    /\ last.op = "load"
    /\ reminders_file = NotAList("unreadable")
    /\ last.file = reminders_file
    /\ last.pending # <<>>
    /\ reminders = <<>>

\* ------------------------------------------------------ the running bot
\* The fourth specification: one process that stays up, started on the files
\* an earlier run left (none, or up to two reminders that are due and the
\* shutdown marker), with the clock advancing, the tasks.loop beginning its
\* iterations and every awaited delivery returning.
LeftBehind ==
    {<<>>,
     <<[user_id |-> 1, message |-> "m", remind_time |-> 0, created_at |-> 0, rid |-> 1]>>,
     <<[user_id |-> 1, message |-> "m", remind_time |-> 0, created_at |-> 0, rid |-> 1],
       [user_id |-> 1, message |-> "m", remind_time |-> 0, created_at |-> 0, rid |-> 2]>>}

InitLive ==
    /\ now = 0
    /\ proc = "up"
    /\ reminders = <<>>
    /\ \E rs \in LeftBehind :
          /\ reminders_file = IF rs = <<>> THEN None ELSE Some(ToEntries(rs))
          /\ shutdown_file = IF rs = <<>> THEN None ELSE Some(isoformat(0))
          /\ nextId = Len(rs) + 1
    /\ has_initialized = FALSE
    /\ checker_running = FALSE
    /\ ready = <<>>
    /\ poll = <<>>
    /\ starts = 1
    /\ popped = {}
    /\ dt_returned = 0
    /\ last = Did("init")
    /\ parse_call = <<>>
    /\ parse_result = <<>>

NextLive ==
    \/ Tick
    \/ OnReady
    \/ \E i \in 1..MaxReady, status \in Statuses : RecoveryDeliver(i, status)
    \/ PollStart
    \/ \E status \in Statuses : PollDeliver(status)
    \/ \E u \in Users, m \in Messages, parsed \in Parsed, d \in 0..1 :
          Remindme(u, m, parsed, d)
    \/ OnDisconnect

\* The clock advances; the tasks.loop begins an iteration when the one before
\* has ended; an awaited deliver_reminder returns.  Fairness is asked of the
\* steps that change the clock, the pending list or the suspended cycles.
live_vars == <<now, reminders, ready, poll, has_initialized, checker_running>>

FairLive ==
    /\ WF_live_vars(Tick)
    /\ WF_live_vars(PollStart)
    /\ WF_live_vars(\E status \in Statuses : PollDeliver(status))
    /\ WF_live_vars(\E i \in 1..MaxReady, status \in Statuses : RecoveryDeliver(i, status))

SpecLive == InitLive /\ [][NextLive]_vars /\ FairLive

\* ------------------------------------------------- properties of the parser
Called == parse_result # NoResult

\* The hour and minute a date text with clock parameters p stands for at now n.
HourOf(p, n) == IF p = <<>> THEN n.hour ELSE p[1]
MinuteOf(p, n) == IF p = <<>> THEN n.minute ELSE p[2]

\* Datetime a is strictly after datetime b.
After(a, b) ==
    \/ toordinal(a) > toordinal(b)
    \/ /\ toordinal(a) = toordinal(b)
       /\ \/ second_of_day(a) > second_of_day(b)
          \/ second_of_day(a) = second_of_day(b) /\ a.microsecond > b.microsecond

\* The length of a unit in seconds, by its spelling.
UnitSeconds(u) ==
    IF u \in {"s", "sec", "secs", "second", "seconds"} THEN 1
    ELSE IF u \in {"m", "min", "mins", "minute", "minutes"} THEN 60
    ELSE IF u \in {"h", "hr", "hrs", "hour", "hours"} THEN 3600
    ELSE 86400

\* Datetime r is datetime n plus a units of len seconds, to the microsecond.
IsLater(r, n, a, len) ==
    LET dd == toordinal(r) - toordinal(n)
        ds == second_of_day(r) - second_of_day(n)
    IN  /\ ds % len = 0
        /\ dd * (86400 \div len) + ds \div len = a
        /\ r.microsecond = n.microsecond

\* C16: for "in N unit" with any of the unit spellings the parser returns
\* now + N seconds, minutes, hours or days, to the microsecond, when N is
\* positive, and None when N is 0.
C16_RelativeExact ==
    \A a \in Amounts, u \in Units, sp \in BOOLEAN :
        (Called /\ parse_call.time_str = RelativeText(a, u, sp)) =>
            IF a <= 0 THEN parse_result = None
            ELSE /\ Len(parse_result) = 1
                 /\ IsLater(parse_result[1], parse_call.now, a, UnitSeconds(u))

\* C17: for a clock time alone the parser returns today at that time, seconds
\* and microseconds zero, when that is strictly after now, and the same time
\* one day later otherwise; "2:30 PM" at 2025-03-10 09:00 is 2025-03-10 14:30
\* and at 2025-03-10 15:00 is 2025-03-11 14:30.
C17_TimeOnlyRolls ==
    /\ \A h \in ClockHours, mi \in ClockMinutes, st \in ClockStyles :
          (Called /\ parse_call.time_str = ClockText(h, mi, st)) =>
              LET n     == parse_call.now
                  today == datetime(n.year, n.month, n.day, h, mi, 0, 0)
              IN  /\ Len(parse_result) = 1
                  /\ IF After(today, n) THEN parse_result[1] = today
                     ELSE /\ toordinal(parse_result[1]) = toordinal(today) + 1
                          /\ second_of_day(parse_result[1]) = second_of_day(today)
                          /\ parse_result[1].microsecond = 0
    /\ (/\ Called
        /\ parse_call.time_str = ClockText(14, 30, "12 p")
        /\ parse_call.now = datetime(2025, 3, 10, 9, 0, 0, 0))
          => parse_result = Some(datetime(2025, 3, 10, 14, 30, 0, 0))
    /\ (/\ Called
        /\ parse_call.time_str = ClockText(14, 30, "12 p")
        /\ parse_call.now = datetime(2025, 3, 10, 15, 0, 0, 0))
          => parse_result = Some(datetime(2025, 3, 11, 14, 30, 0, 0))

\* C17 witness: "14:30" at 2025-03-10 14:30:00 sharp is not strictly after now
\* and has rolled to the next day.
C17_Witness ==
    /\ Called
    /\ parse_call.time_str = ClockText(14, 30, "24")
    /\ parse_call.now = datetime(2025, 3, 10, 14, 30, 0, 0)
    /\ parse_result = Some(datetime(2025, 3, 11, 14, 30, 0, 0))

\* C18: for a month/day without year, with or without a clock time, that is a
\* date of now's year, the parser returns that date in now's year (at the
\* clock time, or at now's hour and minute, seconds zero) when it is strictly
\* after now, and the same month, day and time one year later otherwise.
C18_NoYearRollsOneYear ==
    \A md \in MonthDays, sep \in {"/", "-"}, p \in DateClockParams :
        LET n    == parse_call.now
            same == datetime(n.year, md[1], md[2], HourOf(p, n), MinuteOf(p, n), 0, 0)
        IN  (/\ Called
             /\ parse_call.time_str = WithClock(DateText(md[1], md[2], sep), ClockOf(p))
             /\ date_exists(n.year, md[1], md[2])) =>
                IF After(same, n) THEN parse_result = Some(same)
                ELSE date_exists(n.year + 1, md[1], md[2]) =>
                        parse_result = Some([same EXCEPT !.year = n.year + 1])

\* C19: for Feb 29 without year, with or without a clock time, at a now of a
\* leap year for which Feb 29 of that year is not strictly after now, the
\* parser returns Feb 28 of the next year (which is no leap year).
C19_LeapDayRollsToFeb28 ==
    \A sep \in {"/", "-"}, p \in DateClockParams :
        LET n    == parse_call.now
            same == datetime(n.year, 2, 29, HourOf(p, n), MinuteOf(p, n), 0, 0)
        IN  (/\ Called
             /\ parse_call.time_str = WithClock(DateText(2, 29, sep), ClockOf(p))
             /\ is_leap(n.year)
             /\ ~is_leap(n.year + 1)
             /\ ~After(same, n)) =>
                parse_result = Some([same EXCEPT !.year = n.year + 1, !.day = 28])

\* C20: for a date with a two-digit year yy, with or without a clock time, the
\* parser returns that month and day in year 2000 + yy (at the clock time, or
\* at now's hour and minute, seconds zero), whatever now is; "10/08/25 2:30 PM"
\* is 2025-10-08 14:30:00.
C20_TwoDigitYear ==
    /\ \A md \in MonthDays, y \in Years2, sep \in {"/", "-"}, p \in DateClockParams :
          LET n == parse_call.now IN
          (/\ Called
           /\ parse_call.time_str
                = WithClock(DateYearText(md[1], md[2], y, 2, sep), ClockOf(p))
           /\ date_exists(2000 + y, md[1], md[2])) =>
              parse_result = Some(datetime(2000 + y, md[1], md[2],
                                           HourOf(p, n), MinuteOf(p, n), 0, 0))
    /\ (Called /\ parse_call.time_str
                   = WithClock(DateYearText(10, 8, 25, 2, "/"), ClockText(14, 30, "12 p")))
          => parse_result = Some(datetime(2025, 10, 8, 14, 30, 0, 0))

\* C20 witness: "02-29-72" is Feb 29 of 2072, at now's hour and minute.
C20_Witness ==
    /\ Called
    /\ parse_call.time_str = DateYearText(2, 29, 72, 2, "-")
    /\ parse_call.now = datetime(2025, 6, 1, 8, 15, 30, 0)
    /\ parse_result = Some(datetime(2072, 2, 29, 8, 15, 0, 0))

\* C21: for a date with a four-digit year, with or without a clock time, the
\* parser returns exactly that year, month and day, also when the date lies
\* before now, at the clock time or, for a date alone, at now's hour and
\* minute, seconds and microseconds zero.
C21_ExplicitYearKept ==
    \A md \in MonthDays, y \in Years4, sep \in {"/", "-", "iso"}, p \in DateClockParams :
        LET n == parse_call.now IN
        (/\ Called
         /\ parse_call.time_str
              = WithClock(DateYearText(md[1], md[2], y, 4, sep), ClockOf(p))
         /\ date_exists(y, md[1], md[2])) =>
            parse_result = Some(datetime(y, md[1], md[2],
                                         HourOf(p, n), MinuteOf(p, n), 0, 0))

\* C21 witness: "01/01/1999" at 2025-06-01 08:15:30 is 1999-01-01 08:15:00,
\* twenty-six years before now.
C21_Witness ==
    /\ Called
    /\ parse_call.time_str = DateYearText(1, 1, 1999, 4, "/")
    /\ parse_call.now = datetime(2025, 6, 1, 8, 15, 30, 0)
    /\ parse_result = Some(datetime(1999, 1, 1, 8, 15, 0, 0))

\* C22: for the word "tomorrow", "tmr" or "tmrw" alone the parser returns the
\* day after now's day at now's hour and minute, seconds and microseconds
\* zero.
C22_BareTomorrow ==
    \A w \in {"tomorrow", "tmr", "tmrw"} :
        (Called /\ parse_call.time_str = <<Lit(w)>>) =>
            LET n == parse_call.now IN
            /\ Len(parse_result) = 1
            /\ toordinal(parse_result[1]) = toordinal(n) + 1
            /\ parse_result[1].hour = n.hour
            /\ parse_result[1].minute = n.minute
            /\ parse_result[1].second = 0
            /\ parse_result[1].microsecond = 0

\* C22 witness: "tmr" at 2025-03-10 14:30:20.000005 is 2025-03-11 14:30:00.
C22_Witness ==
    /\ Called
    /\ parse_call.time_str = <<Lit("tmr")>>
    /\ parse_call.now = datetime(2025, 3, 10, 14, 30, 20, 5)
    /\ parse_result = Some(datetime(2025, 3, 11, 14, 30, 0, 0))

\* Some format of the list matches the text.
FormatMatches(fmts, text) == \E i \in 1..Len(fmts) : strptime(text, fmts[i]) # None

\* The text matches the format of pattern class c, 1 (relative duration) to 8
\* (time only).
ClassMatches(c, text) ==
    CASE c = 1 -> relative_match(text)
      [] c = 2 -> text \in {<<Lit(w)>> : w \in {"tomorrow", "tmr", "tmrw"}}
      [] c = 3 -> /\ tomorrow_with_time(text) # None
                  /\ FormatMatches(clock_formats, tomorrow_with_time(text)[1])
      [] c = 4 -> FormatMatches(date_time_with_year, text)
      [] c = 5 -> FormatMatches(date_time_without_year, text)
      [] c = 6 -> FormatMatches(date_only_with_year, text)
      [] c = 7 -> FormatMatches(date_only_without_year, text)
      [] c = 8 -> FormatMatches(clock_formats, text)

\* What the class makes of the first of its formats that matches the text.
FirstFormat(class, text, fmts, n) ==
    LET i == CHOOSE k \in 1..Len(fmts) :
                 /\ strptime(text, fmts[k]) # None
                 /\ \A j \in 1..(k - 1) : strptime(text, fmts[j]) = None
    IN  try_format(class, text, fmts[i], n)

\* The result of pattern class c for a text that matches its format.
ClassResult(c, text, n) ==
    CASE c = 1 -> IF text[3].v <= 0 THEN None
                  ELSE add_amount(n, text[3].v, text[Len(text)].k)
      [] c = 2 -> tomorrow_at(n, n.hour, n.minute)
      [] c = 3 -> FirstFormat("tomorrow_at", tomorrow_with_time(text)[1], clock_formats, n)
      [] c = 4 -> FirstFormat("date_time_with_year", text, date_time_with_year, n)
      [] c = 5 -> FirstFormat("date_time_without_year", text, date_time_without_year, n)
      [] c = 6 -> FirstFormat("date_only_with_year", text, date_only_with_year, n)
      [] c = 7 -> FirstFormat("date_only_without_year", text, date_only_without_year, n)
      [] c = 8 -> FirstFormat("time_only", text, clock_formats, n)

FileEntries(f) == IF f = None THEN {} ELSE Range(f[1])

\* Some on_ready of this process has run load_reminders: it has finished, or
\* it is suspended in its recovery.
Loaded == has_initialized \/ ready # <<>>

\* C24: as long as no on_ready of the running process has loaded the file, no
\* step (a signal, a disconnect, the end of the run loop among them) takes an
\* entry out of the reminders file.
C24_NoSaveBeforeLoad ==
    [][(proc = "up" /\ ~Loaded) => FileEntries(reminders_file) \subseteq FileEntries(reminders_file')]_vars

\* The reminders in flight: a poll or a recovery has popped them and the
\* outcome of their delivery has not been handled.
InFlight ==
    UNION ({Rids(poll[i].due) : i \in 1..Len(poll)}
           \cup {Rids(ready[i].due) : i \in 1..Len(ready)})

\* C25: a shutdown (signal, end of the run loop), and the death of the process
\* right after the save of a disconnect, leave in the reminders file every
\* reminder that was pending or in flight when the process went down.
C25_InFlightSurvivesShutdown ==
    [][(\/ last'.op \in {"signal", "run_exit"}
        \/ last.op = "disconnect" /\ last'.op = "crash") =>
          \A id \in Rids(reminders) \cup InFlight :
              \E e \in FileEntries(reminders_file') : e.rid = id]_vars

\* C26: in one process load_reminders and the recovery run at most once, also
\* when a ready event arrives while an earlier on_ready is suspended in its
\* recovery, and so no reminder is in the hands of two recoveries.
C26_RecoveryOnce ==
    /\ [][(proc = "up" /\ Loaded) => last'.op # "on_ready_init"]_vars
    /\ [](\A i, j \in 1..Len(ready) :
             i # j => Rids(ready[i].due) \cap Rids(ready[j].due) = {})

\* How often the tasks of list tasks hold rid id in their due lists.
RECURSIVE CountDue(_, _)
CountDue(tasks, id) ==
    IF tasks = <<>> THEN 0
    ELSE CountRid(Head(tasks).due, id) + CountDue(Tail(tasks), id)

\* Reminder id is in exactly one place: once in the pending list, once in
\* flight, or finished (a pop returned it, it was not requeued, and no cycle
\* holds it any more).
InOnePlace(id) ==
    LET pending  == CountRid(reminders, id)
        flight   == CountDue(poll, id) + CountDue(ready, id)
        finished == IF id \in popped /\ flight = 0 THEN 1 ELSE 0
    IN  pending + flight + finished = 1

AllInOnePlace == \A id \in 1..(nextId - 1) : InOnePlace(id)

\* C27: the steps of /remindme, of the poller and of a recovery after its pop,
\* in whatever order they come, leave every reminder that was added in exactly
\* one place; a reminder /remindme adds is pending at once, and the save that
\* ends a cycle keeps every pending reminder, the ones added during the cycle
\* included, and writes them all to the file.
C27_AddsAndCyclesKeepAll ==
    [][/\ (/\ proc = "up"
           /\ AllInOnePlace
           /\ last'.op \in {"add", "remindme_refused", "poll", "deliver", "deliver_missed"})
          => AllInOnePlace'
       /\ last'.op = "add" => CountRid(reminders', last'.reminder.rid) = 1
       /\ (last'.op \in DeliverOps /\ last'.final) =>
             \A id \in Rids(reminders) :
                 /\ id \in Rids(reminders')
                 /\ \E i \in 1..Len(reminders') :
                       /\ reminders'[i].rid = id
                       /\ ToEntry(reminders'[i]) \in FileEntries(reminders_file')]_vars

\* C27 witness: /remindme has added a reminder while an iteration of the
\* poller is suspended at a delivery; the new reminder is pending and in the
\* file, the popped one is in flight, and every reminder is in one place.
C27_Witness ==
    /\ last.op = "add"
    /\ poll # <<>>
    /\ CountRid(reminders, last.reminder.rid) = 1
    /\ \E e \in FileEntries(reminders_file) : e.rid = last.reminder.rid
    /\ \E id \in Rids(poll[1].due) : id # last.reminder.rid /\ CountRid(reminders, id) = 0
    /\ AllInOnePlace

\* Reminder id is pending with a remind_time the clock reaches.
PendingWithin(id) ==
    \E i \in 1..Len(reminders) :
        reminders[i].rid = id /\ reminders[i].remind_time <= MaxTime

\* A delivery of reminder id has just returned.
Attempted(id) == last.op \in DeliverOps /\ last.reminder.rid = id

\* C28: with the clock advancing, the poller beginning its iterations and
\* deliveries returning, every pending reminder is eventually popped (in
\* flight), every reminder in flight gets its delivery attempt, and a reminder
\* whose delivery returned retry is eventually in flight again.
C28_EventuallyAttempted ==
    \A which \in 1..MaxAdds :
        /\ PendingWithin(which) ~> (which \in InFlight)
        /\ (which \in InFlight) ~> Attempted(which)
        /\ (/\ Attempted(which)
            /\ last.status = "retry"
            /\ last.t + REMINDER_RETRY_DELAY <= MaxTime) ~> (which \in InFlight)
=============================================================================
